---- MODULE Spec2Model ----
(***************************************************************************)
(* The validation orchestrator of the verifiable-credentials verification  *)
(* SDK: Validator.validate with its work queue, Validator.getTokenType,    *)
(* Validator.setValidationResult, and the two fail-fast pipelines          *)
(* DidValidation.validate and BaseIdTokenValidation.validate.              *)
(***************************************************************************)
EXTENDS Naturals, Sequences, FiniteSets

\* ------------------------------------------------------------------ bounds
\* The longest queue a run builds: the root token plus the nested tokens the
\* validators enqueue.
MaxQueue == 3

\* ------------------------------------------------------------- vocabulary
\* JavaScript's undefined, as a value of every optional string field.
Undefined == "undefined"

\* TokenType, the tag of a ClaimToken (Validator.ts:62-79).
TokenTypes == {"idToken", "verifiableCredential", "verifiablePresentation", "siop", "selfIssued"}

\* The DIDs of the model's tokens.
DIDs == {"did:a", "did:b"}

\* The payload fields getTokenType looks at. A field is in a token's `fields`
\* when the test `if (payloadObject.f)` passes, that is when it is present
\* with a truthy value.
PayloadFields == {"vc", "vp", "claims"}

\* What the strict signed-token deserialization does with a token: it
\* succeeds, fails with status 403, or fails with another status.
StrictOutcomes == {"ok", "s403", "other"}

\* A raw token, by what the collaborators make of it: whether the tolerant
\* deserialization parses it, the fields of its payload, the outcome of the
\* strict deserialization, and the aud field of its payload.
Token(parses, fields, strict, aud) ==
  [parses |-> parses, fields |-> fields, strict |-> strict, aud |-> aud]

\* The raw tokens of the model: one that does not parse; credentials with
\* each audience, alone and with every other field; presentations; a SIOP
\* token; and tokens without any of the fields, for each strict outcome.
Tokens ==
  {Token(FALSE, {}, "other", Undefined)}
    \cup {Token(TRUE, {"vc"}, "ok", a) : a \in DIDs \cup {Undefined}}
    \cup {Token(TRUE, {"vc", "vp", "claims"}, "ok", "did:a")}
    \cup {Token(TRUE, f, "ok", Undefined) : f \in {{"vp"}, {"vp", "claims"}, {"claims"}}}
    \cup {Token(TRUE, {}, s, Undefined) : s \in StrictOutcomes}

\* An IValidationResponse: result, status, the did a DID-signed token
\* resolves to, and the error detail. detailedError is 0 when there is none,
\* and otherwise names the place that produced the failure (a queue position
\* in the orchestrator, a step number in a pipeline), so that two failures
\* of different origins are different responses.
Response(result, status, did, detailedError) ==
  [result |-> result, status |-> status, did |-> did, detailedError |-> detailedError]

\* The response validate and getTokenType start with (Validator.ts:43-46,149-152).
InitialResponse == Response(TRUE, 200, Undefined, 0)

\* A decoded payload, as ClaimToken.decodedToken holds it.
DecodedToken(token) == [fields |-> token.fields, aud |-> token.aud]

\* new ClaimToken(type, token, ''): the type tag and the decoded payload.
ClaimToken(type, token) == [type |-> type, decodedToken |-> DecodedToken(token)]

\* `{} as ClaimToken` (Validator.ts:157): a claim token without a type.
EmptyClaimToken == [type |-> Undefined, decodedToken |-> [fields |-> {}, aud |-> Undefined]]

\* ------------------------------------------------------------ the state
VARIABLES
  tokenValidators,  \* the keys of the dispatch table the Validator was built with
  pc,               \* where validate is: "idle", "loop", "await", "returned"
  queue,            \* ValidationQueue: the sequence of its items
  queueItem,        \* the position in queue of the local queueItem, 0 when undefined
  response,         \* the local response
  claimToken,       \* the local claimToken
  siopDid,          \* the local siopDid
  outcome,          \* what the promise validate returned settles to
  trace,            \* spy: the classifications, validator calls and setResults so far
  pkind,            \* the pipeline under way: "none", "did", "idToken"
  ppc,              \* the pipeline's next step, "returned" when validate has returned
  validationResponse, \* the pipeline's local validationResponse
  pcalls,           \* spy: the delegates the pipeline called, with what each returned
  preturn,          \* what the pipeline's validate returned, <<>> while it runs
  env,              \* the collaborators of a Validator that is called again and again
  firstCall         \* spy: the first call to that Validator, <<>> before it has returned

vars == <<tokenValidators, pc, queue, queueItem, response, claimToken, siopDid, outcome,
          trace, pkind, ppc, validationResponse, pcalls, preturn, env, firstCall>>

orchVars == <<tokenValidators, pc, queue, queueItem, response, claimToken, siopDid,
              outcome, trace>>

pipeVars == <<pkind, ppc, validationResponse, pcalls, preturn>>

sessionVars == <<env, firstCall>>

\* ------------------------------------------------------ ValidationQueue
\* A queue item before setResult.
NotValidated == Response(FALSE, 500, Undefined, 0)

ValidationQueueItem(token) ==
  [tokenToValidate |-> token, isValidated |-> FALSE,
   validatedToken |-> EmptyClaimToken, validationResponse |-> NotValidated]

\* ValidationQueue.addToken: appends a pending item.
addToken(q, token) == Append(q, ValidationQueueItem(token))

\* ValidationQueue.getNextToken: the position of the first item that has not
\* been processed, 0 when there is none.
getNextToken(q) ==
  IF \E i \in 1..Len(q) : ~q[i].isValidated
    THEN CHOOSE i \in 1..Len(q) : ~q[i].isValidated /\ \A j \in 1..(i - 1) : q[j].isValidated
    ELSE 0

\* ValidationQueueItem.setResult on the item at position i.
setResult(q, i, resp, token) ==
  [q EXCEPT ![i] = [@ EXCEPT !.isValidated = TRUE, !.validatedToken = token,
                             !.validationResponse = resp]]

\* ValidationQueue.getResult: the response of the last processed item.
getResult(q) ==
  LET done == {i \in 1..Len(q) : q[i].isValidated}
  IN  IF done = {} THEN NotValidated
      ELSE q[CHOOSE i \in done : \A j \in done : j <= i].validationResponse

\* ------------------------------------------------- the collaborators
\* getSelfIssuedTokenObjectDelegate: the tolerant deserialization. `at` is
\* the queue position of the token, which names the failure.
getSelfIssuedTokenObjectDelegate(token, at) ==
  IF token.parses THEN Response(TRUE, 200, Undefined, 0)
  ELSE Response(FALSE, 400, Undefined, at)

\* getTokenObjectDelegate: the strict deserialization of a signed token.
getTokenObjectDelegate(token, at) ==
  CASE token.strict = "ok" -> Response(TRUE, 200, Undefined, 0)
    [] token.strict = "s403" -> Response(FALSE, 403, Undefined, at)
    [] OTHER -> Response(FALSE, 400, Undefined, at)

\* What ITokenValidator.validate may return for the item at position `at`,
\* of the given type, called with siopArg. A success has status 200 and, for
\* a SIOP token, the DID that signed it; a failure names its item. A
\* credential validator fails when it is given a siopDid that is not the
\* audience of the credential.
ValidatorResponses(type, token, siopArg, at) ==
  LET dids == IF type = "siop" THEN DIDs ELSE {Undefined}
      failures == {Response(FALSE, 403, d, at) : d \in dids \cup {Undefined}}
      successes == {Response(TRUE, 200, d, 0) : d \in dids}
  IN  IF type = "verifiableCredential" /\ siopArg # Undefined /\ token.aud # siopArg
        THEN failures
        ELSE failures \cup successes

\* ------------------------------------------------ Validator.getTokenType
\* The response, the claim token, and whether the strict deserialization
\* delegate was called.
Classified(resp, token, strictCalled) ==
  [response |-> resp, claimToken |-> token, strictCalled |-> strictCalled]

\* getTokenType with the tests of vp and vc in the other order.
getTokenTypeVpFirst(token, at) ==
  LET first == getSelfIssuedTokenObjectDelegate(token, at)
      strict == getTokenObjectDelegate(token, at)
  IN  IF ~first.result THEN Classified(first, EmptyClaimToken, FALSE)
      ELSE IF "vp" \in token.fields
        THEN Classified(first, ClaimToken("verifiablePresentation", token), FALSE)
      ELSE IF "vc" \in token.fields
        THEN Classified(first, ClaimToken("verifiableCredential", token), FALSE)
      ELSE IF "claims" \in token.fields
        THEN Classified(first, ClaimToken("siop", token), FALSE)
      ELSE IF ~strict.result /\ strict.status = 403
        THEN Classified(strict, ClaimToken("selfIssued", token), TRUE)
      ELSE Classified(strict, ClaimToken("idToken", token), TRUE)

\* getTokenType without the test of the status: any failure of the strict
\* deserialization makes the token selfIssued.
getTokenTypeAnyFailure(token, at) ==
  LET first == getSelfIssuedTokenObjectDelegate(token, at)
      strict == getTokenObjectDelegate(token, at)
  IN  IF ~first.result THEN Classified(first, EmptyClaimToken, FALSE)
      ELSE IF "vc" \in token.fields
        THEN Classified(first, ClaimToken("verifiableCredential", token), FALSE)
      ELSE IF "vp" \in token.fields
        THEN Classified(first, ClaimToken("verifiablePresentation", token), FALSE)
      ELSE IF "claims" \in token.fields
        THEN Classified(first, ClaimToken("siop", token), FALSE)
      ELSE IF ~strict.result
        THEN Classified(strict, ClaimToken("selfIssued", token), TRUE)
      ELSE Classified(strict, ClaimToken("idToken", token), TRUE)

getTokenType(token, at) ==
  LET first == getSelfIssuedTokenObjectDelegate(token, at)
      strict == getTokenObjectDelegate(token, at)
  IN  IF ~first.result THEN Classified(first, EmptyClaimToken, FALSE)
      ELSE IF "vc" \in token.fields
        THEN Classified(first, ClaimToken("verifiableCredential", token), FALSE)
      ELSE IF "vp" \in token.fields
        THEN Classified(first, ClaimToken("verifiablePresentation", token), FALSE)
      ELSE IF "claims" \in token.fields
        THEN Classified(first, ClaimToken("siop", token), FALSE)
      ELSE IF ~strict.result /\ strict.status = 403
        THEN Classified(strict, ClaimToken("selfIssued", token), TRUE)
      ELSE Classified(strict, ClaimToken("idToken", token), TRUE)

\* ------------------------------------------ Validator.setValidationResult
\* The positions of the items of q whose validated token has the type.
ItemsOfType(q, type) == {i \in 1..Len(q) : q[i].validatedToken.type = type}

\* filter(...).map(f)[0]: the position of the first item of the type, 0 when
\* there is none.
FirstOfType(q, type) ==
  IF ItemsOfType(q, type) = {} THEN 0
  ELSE CHOOSE i \in ItemsOfType(q, type) : \A j \in ItemsOfType(q, type) : i <= j

\* filter(...).map(item => item.validatedToken.decodedToken), in queue order.
RECURSIVE DecodedOfType(_, _)
DecodedOfType(q, type) ==
  IF q = <<>> THEN <<>>
  ELSE IF Head(q).validatedToken.type = type
    THEN <<Head(q).validatedToken.decodedToken>> \o DecodedOfType(Tail(q), type)
    ELSE DecodedOfType(Tail(q), type)

\* An IValidationResult. selfIssued is a sequence of at most one decoded
\* token: empty for undefined.
ValidationResult(did, vcs, idTokens, si) ==
  [did |-> did, verifiableCredentials |-> vcs, idTokens |-> idTokens, selfIssued |-> si]

\* setValidationResult taking the audience of a credential before the DID of
\* the SIOP token.
setValidationResultCredentialFirst(q) ==
  LET siop == FirstOfType(q, "siop")
      vc == FirstOfType(q, "verifiableCredential")
      aud == IF vc = 0 THEN Undefined ELSE q[vc].validatedToken.decodedToken.aud
      did == IF aud # Undefined THEN aud
             ELSE IF siop = 0 THEN Undefined
             ELSE q[siop].validationResponse.did
      si == DecodedOfType(q, "selfIssued")
  IN  ValidationResult(IF did # Undefined THEN did ELSE "",
                       DecodedOfType(q, "verifiableCredential"),
                       DecodedOfType(q, "idToken"),
                       IF si = <<>> THEN <<>> ELSE <<Head(si)>>)

\* setValidationResult listing only the first credential.
setValidationResultFirstCredential(q) ==
  LET siop == FirstOfType(q, "siop")
      vc == FirstOfType(q, "verifiableCredential")
      siopDidOfQueue == IF siop = 0 THEN Undefined ELSE q[siop].validationResponse.did
      did == IF siopDidOfQueue # Undefined THEN siopDidOfQueue
             ELSE IF vc = 0 THEN Undefined
             ELSE q[vc].validatedToken.decodedToken.aud
      si == DecodedOfType(q, "selfIssued")
      vcs == DecodedOfType(q, "verifiableCredential")
  IN  ValidationResult(IF did # Undefined THEN did ELSE "",
                       IF vcs = <<>> THEN <<>> ELSE <<Head(vcs)>>,
                       DecodedOfType(q, "idToken"),
                       IF si = <<>> THEN <<>> ELSE <<Head(si)>>)

setValidationResult(q) ==
  LET siop == FirstOfType(q, "siop")
      vc == FirstOfType(q, "verifiableCredential")
      siopDidOfQueue == IF siop = 0 THEN Undefined ELSE q[siop].validationResponse.did
      did == IF siopDidOfQueue # Undefined THEN siopDidOfQueue
             ELSE IF vc = 0 THEN Undefined
             ELSE q[vc].validatedToken.decodedToken.aud
      si == DecodedOfType(q, "selfIssued")
  IN  ValidationResult(IF did # Undefined THEN did ELSE "",
                       DecodedOfType(q, "verifiableCredential"),
                       DecodedOfType(q, "idToken"),
                       IF si = <<>> THEN <<>> ELSE <<Head(si)>>)

\* ------------------------------------------------- Validator.validate
\* The dispatch tables a Validator is built with: every type registered, one
\* type missing, and a table that also has an entry under "undefined".
DispatchTables ==
  {TokenTypes, TokenTypes \cup {Undefined}, TokenTypes \ {"verifiableCredential"}}

NoValidationResult == ValidationResult("", <<>>, <<>>, <<>>)

\* What the promise settles to. kind is "pending" while validate runs,
\* "success" for the aggregated result, "failure" for a returned response
\* with result false, "rejected" for a rejected promise (reason is then the
\* type named in the rejection).
Outcome(kind, resp, result, reason) ==
  [kind |-> kind, response |-> resp, validationResult |-> result, reason |-> reason]

Pending == Outcome("pending", InitialResponse, NoValidationResult, "")

\* An entry of the spy: getTokenType classified the item ("classify", with
\* whether the strict delegate was called), a validator was called for it
\* ("validate", with the siopDid it was given), or its result was recorded
\* ("setResult").
Event(op, item, type, siopArg, strict) ==
  [op |-> op, item |-> item, type |-> type, siopDid |-> siopArg, strict |-> strict]

\* The switch of Validator.ts:61-82: the siopDid argument the validator of
\* the type is called with (undefined for the validators that take none).
SiopArgument(type, did) ==
  IF type \in {"verifiableCredential", "verifiablePresentation"} THEN did ELSE Undefined

\* Validator.ts:77: siopDid after the validator of the type has returned resp.
SiopDidAfter(type, resp, did) == IF type = "siop" THEN resp.did ELSE did

\* Validator.ts:95-105: what validate returns once the loop has ended.
Returned(q) ==
  IF getResult(q).result
    THEN Outcome("success", InitialResponse, setValidationResult(q), "")
    ELSE Outcome("failure", getResult(q), NoValidationResult, "")

\* The collaborators as functions of their arguments: the types whose
\* validator fails, and the DID the SIOP validator resolves.
Environment(fail, did) == [fail |-> fail, did |-> did]

Init ==
  /\ tokenValidators \in DispatchTables
  /\ pc = "idle"
  /\ queue = <<>>
  /\ queueItem = 0
  /\ response = InitialResponse
  /\ claimToken = EmptyClaimToken
  /\ siopDid = Undefined
  /\ outcome = Pending
  /\ trace = <<>>
  /\ pkind = "none"
  /\ ppc = "none"
  /\ validationResponse = InitialResponse
  /\ pcalls = <<>>
  /\ preturn = <<>>
  /\ env = Environment({}, "did:a")
  /\ firstCall = <<>>

\* validate with siopDid kept from one call to the next, as a field of the
\* Validator would be.
validateKeepingSiopDid(token) ==
  /\ pc = "idle"
  /\ pkind = "none"
  /\ queue' = addToken(<<>>, token)
  /\ queueItem' = getNextToken(queue')
  /\ response' = InitialResponse
  /\ siopDid' = siopDid
  /\ pc' = "loop"
  /\ UNCHANGED <<tokenValidators, claimToken, outcome, trace>>
  /\ UNCHANGED <<pipeVars, sessionVars>>

\* Validator.ts:40-51: validate is called with the root token.
validate(token) ==
  /\ pc = "idle"
  /\ pkind = "none"
  /\ queue' = addToken(<<>>, token)
  /\ queueItem' = getNextToken(queue')
  /\ response' = InitialResponse
  /\ siopDid' = Undefined
  /\ pc' = "loop"
  /\ UNCHANGED <<tokenValidators, claimToken, outcome, trace>>
  /\ UNCHANGED <<pipeVars, sessionVars>>

\* Validator.ts:53-59: the item is classified and no validator is registered
\* under its type: the promise is rejected.
RejectNoValidator ==
  /\ pc = "loop"
  /\ LET c == getTokenType(queue[queueItem].tokenToValidate, queueItem)
     IN  /\ c.claimToken.type \notin tokenValidators
         /\ response' = c.response
         /\ claimToken' = c.claimToken
         /\ trace' = Append(trace, Event("classify", queueItem, c.claimToken.type,
                                         Undefined, c.strictCalled))
         /\ outcome' = Outcome("rejected", InitialResponse, NoValidationResult,
                               c.claimToken.type)
  /\ pc' = "returned"
  /\ UNCHANGED <<tokenValidators, queue, queueItem, siopDid>>
  /\ UNCHANGED <<pipeVars, sessionVars>>

\* Validator.ts:53-54,61,83-87: a validator is registered under the type of
\* the item, and the type is none of the switch's cases.
RejectNotSupported ==
  /\ pc = "loop"
  /\ LET c == getTokenType(queue[queueItem].tokenToValidate, queueItem)
     IN  /\ c.claimToken.type \in tokenValidators
         /\ c.claimToken.type \notin TokenTypes
         /\ response' = c.response
         /\ claimToken' = c.claimToken
         /\ trace' = Append(trace, Event("classify", queueItem, c.claimToken.type,
                                         Undefined, c.strictCalled))
         /\ outcome' = Outcome("rejected", InitialResponse, NoValidationResult,
                               c.claimToken.type)
  /\ pc' = "returned"
  /\ UNCHANGED <<tokenValidators, queue, queueItem, siopDid>>
  /\ UNCHANGED <<pipeVars, sessionVars>>

\* Validator.ts:53-82: the item is classified and its validator is called;
\* validate awaits it.
Dispatch ==
  /\ pc = "loop"
  /\ LET c == getTokenType(queue[queueItem].tokenToValidate, queueItem)
     IN  /\ c.claimToken.type \in tokenValidators
         /\ c.claimToken.type \in TokenTypes
         /\ response' = c.response
         /\ claimToken' = c.claimToken
         /\ trace' = trace \o
              <<Event("classify", queueItem, c.claimToken.type, Undefined, c.strictCalled),
                Event("validate", queueItem, c.claimToken.type,
                      SiopArgument(c.claimToken.type, siopDid), FALSE)>>
  /\ pc' = "await"
  /\ UNCHANGED <<tokenValidators, queue, queueItem, siopDid, outcome>>
  /\ UNCHANGED <<pipeVars, sessionVars>>

\* The validator under way enqueues a nested token (queue.addToken).
ValidatorAddToken(token) ==
  /\ pc = "await"
  /\ Len(queue) < MaxQueue
  /\ queue' = addToken(queue, token)
  /\ UNCHANGED <<tokenValidators, pc, queueItem, response, claimToken, siopDid, outcome, trace>>
  /\ UNCHANGED <<pipeVars, sessionVars>>

\* ValidatorReturn without the call of setResult.
ValidatorReturnWithoutSetResult(resp) ==
  /\ pc = "await"
  /\ resp \in ValidatorResponses(claimToken.type, queue[queueItem].tokenToValidate,
                                 SiopArgument(claimToken.type, siopDid), queueItem)
  /\ siopDid' = SiopDidAfter(claimToken.type, resp, siopDid)
  /\ queue' = queue
  /\ trace' = trace
  /\ queueItem' = getNextToken(queue')
  /\ pc' = "loop"
  /\ response' = resp
  /\ UNCHANGED <<tokenValidators, claimToken, outcome>>
  /\ UNCHANGED <<pipeVars, sessionVars>>

\* Validator.ts:64-105: the validator returns resp; the result is saved on
\* the item, the next token is taken, and validate loops or returns.
ValidatorReturn(resp) ==
  /\ pc = "await"
  /\ resp \in ValidatorResponses(claimToken.type, queue[queueItem].tokenToValidate,
                                 SiopArgument(claimToken.type, siopDid), queueItem)
  /\ siopDid' = SiopDidAfter(claimToken.type, resp, siopDid)
  /\ queue' = setResult(queue, queueItem, resp, claimToken)
  /\ trace' = Append(trace, Event("setResult", queueItem, claimToken.type, Undefined, FALSE))
  /\ queueItem' = getNextToken(queue')
  /\ IF queueItem' # 0
       THEN /\ pc' = "loop"
            /\ response' = resp
            /\ outcome' = outcome
       ELSE /\ pc' = "returned"
            /\ response' = IF getResult(queue').result THEN InitialResponse ELSE getResult(queue')
            /\ outcome' = Returned(queue')
  /\ UNCHANGED <<tokenValidators, claimToken>>
  /\ UNCHANGED <<pipeVars, sessionVars>>

Next ==
  \/ \E token \in Tokens : validate(token)
  \/ RejectNoValidator
  \/ RejectNotSupported
  \/ Dispatch
  \/ \E token \in Tokens : ValidatorAddToken(token)
  \/ \E resp \in {Response(r, s, d, e) : r \in BOOLEAN, s \in {200, 403},
                                        d \in DIDs \cup {Undefined}, e \in 0..MaxQueue} :
       ValidatorReturn(resp)

Spec == Init /\ [][Next]_vars

\* The scheduling of a call: the synchronous part of a loop turn runs, and
\* the validator that validate awaits returns.
Fairness ==
  /\ WF_vars(RejectNoValidator \/ RejectNotSupported \/ Dispatch)
  /\ WF_vars(\E resp \in {Response(r, s, d, e) : r \in BOOLEAN, s \in {200, 403},
                                                d \in DIDs \cup {Undefined}, e \in 0..MaxQueue} :
               ValidatorReturn(resp))

\* One call of validate whose validators all return.
LiveSpec == Init /\ [][Next]_vars /\ Fairness

\* ------------------------------------------------------ the pipelines
\* The detail of the failure DidValidation.validate makes up when the token
\* has no DID ('The input token does not contain the DID').
MissingDidError == 9

\* The steps of DidValidation.validate and of BaseIdTokenValidation.validate,
\* in the order of the code.
DidSteps == <<"deserialize", "resolve", "signature", "time", "scope">>

IdTokenSteps == <<"deserialize", "download", "time", "scope">>

\* The position of a step in a pipeline.
StepNumber(steps, step) == CHOOSE k \in 1..Len(steps) : steps[k] = step

\* What a delegate may return at a step: a success with status 200, or a
\* failure that names its step; either carries any DID or none.
DelegateResponses(steps, step) ==
  {Response(TRUE, 200, d, 0) : d \in DIDs \cup {Undefined}}
    \cup {Response(FALSE, s, d, StepNumber(steps, step)) :
            s \in {401, 403}, d \in DIDs \cup {Undefined}}

\* An entry of the pipeline's spy: the delegate of the step returned resp.
Call(step, resp) == [step |-> step, response |-> resp]

\* A step of a pipeline: the delegate is called and its response assigned to
\* validationResponse; when its result is false validate returns it,
\* otherwise validate goes on to the step `next` ("returned": it returns the
\* response).
PipelineStep(kind, steps, step, resp, next) ==
  /\ pkind = kind
  /\ ppc = step
  /\ resp \in DelegateResponses(steps, step)
  /\ pcalls' = Append(pcalls, Call(step, resp))
  /\ validationResponse' = resp
  /\ IF ~resp.result \/ next = "returned"
       THEN ppc' = "returned" /\ preturn' = <<resp>>
       ELSE ppc' = next /\ preturn' = preturn
  /\ UNCHANGED pkind
  /\ UNCHANGED <<orchVars, sessionVars>>

\* A step without the check of the result: validate goes on whatever the
\* delegate returned.
PipelineStepUnchecked(kind, steps, step, resp, next) ==
  /\ pkind = kind
  /\ ppc = step
  /\ resp \in DelegateResponses(steps, step)
  /\ pcalls' = Append(pcalls, Call(step, resp))
  /\ validationResponse' = resp
  /\ ppc' = next
  /\ preturn' = preturn
  /\ UNCHANGED pkind
  /\ UNCHANGED <<orchVars, sessionVars>>

\* part_000:29-33: DidValidation.validate is called.
DidValidate ==
  /\ pc = "idle"
  /\ pkind = "none"
  /\ pkind' = "did"
  /\ ppc' = "deserialize"
  /\ validationResponse' = InitialResponse
  /\ UNCHANGED <<pcalls, preturn>>
  /\ UNCHANGED <<orchVars, sessionVars>>

\* The deserialization step without the test of the DID.
DidDeserializeWithoutDidCheck(resp) ==
  PipelineStep("did", DidSteps, "deserialize", resp, "resolve")

\* part_000:35-48: the token is deserialized; without a DID in the response
\* validate returns a failure of its own.
DidDeserialize(resp) ==
  /\ pkind = "did"
  /\ ppc = "deserialize"
  /\ resp \in DelegateResponses(DidSteps, "deserialize")
  /\ pcalls' = Append(pcalls, Call("deserialize", resp))
  /\ IF ~resp.result
       THEN /\ validationResponse' = resp
            /\ ppc' = "returned"
            /\ preturn' = <<resp>>
       ELSE IF resp.did = Undefined
         THEN /\ validationResponse' = Response(FALSE, 403, Undefined, MissingDidError)
              /\ ppc' = "returned"
              /\ preturn' = <<validationResponse'>>
         ELSE /\ validationResponse' = resp
              /\ ppc' = "resolve"
              /\ preturn' = preturn
  /\ UNCHANGED pkind
  /\ UNCHANGED <<orchVars, sessionVars>>

\* The resolution step going on to the time check, past the signature.
DidResolveSkippingSignature(resp) == PipelineStep("did", DidSteps, "resolve", resp, "time")

\* part_000:50-54: resolveDidAndGetKeysDelegate.
DidResolve(resp) == PipelineStep("did", DidSteps, "resolve", resp, "signature")

DidValidateSignatureUnchecked(resp) ==
  PipelineStepUnchecked("did", DidSteps, "signature", resp, "time")

\* part_000:56-60: validateDidSignatureDelegate.
DidValidateSignature(resp) == PipelineStep("did", DidSteps, "signature", resp, "time")

\* part_000:62-66: checkTimeValidityOnTokenDelegate.
DidCheckTime(resp) == PipelineStep("did", DidSteps, "time", resp, "scope")

\* part_000:68-75: checkScopeValidityOnTokenDelegate, and the return.
DidCheckScope(resp) == PipelineStep("did", DidSteps, "scope", resp, "returned")

\* BaseIdTokenValidation.ts:27-32: BaseIdTokenValidation.validate is called.
IdTokenValidate ==
  /\ pc = "idle"
  /\ pkind = "none"
  /\ pkind' = "idToken"
  /\ ppc' = "deserialize"
  /\ validationResponse' = InitialResponse
  /\ UNCHANGED <<pcalls, preturn>>
  /\ UNCHANGED <<orchVars, sessionVars>>

\* BaseIdTokenValidation.ts:34-38: getTokenObjectDelegate.
IdTokenDeserialize(resp) ==
  PipelineStep("idToken", IdTokenSteps, "deserialize", resp, "download")

\* BaseIdTokenValidation.ts:40-44: downloadConfigurationAndValidate.
IdTokenDownloadConfiguration(resp) ==
  PipelineStep("idToken", IdTokenSteps, "download", resp, "time")

\* BaseIdTokenValidation.ts:46-51: checkTimeValidityOnTokenDelegate.
IdTokenCheckTime(resp) == PipelineStep("idToken", IdTokenSteps, "time", resp, "scope")

\* BaseIdTokenValidation.ts:53-60: checkScopeValidityOnIdTokenDelegate, and
\* the return.
IdTokenCheckScope(resp) == PipelineStep("idToken", IdTokenSteps, "scope", resp, "returned")

\* The responses a delegate call is given to choose from.
AnyResponse ==
  {Response(r, s, d, e) : r \in BOOLEAN, s \in {200, 401, 403},
                          d \in DIDs \cup {Undefined}, e \in 0..5}

PipelineNext ==
  \/ DidValidate
  \/ \E resp \in AnyResponse : DidDeserialize(resp)
  \/ \E resp \in AnyResponse : DidResolve(resp)
  \/ \E resp \in AnyResponse : DidValidateSignature(resp)
  \/ \E resp \in AnyResponse : DidCheckTime(resp)
  \/ \E resp \in AnyResponse : DidCheckScope(resp)
  \/ IdTokenValidate
  \/ \E resp \in AnyResponse : IdTokenDeserialize(resp)
  \/ \E resp \in AnyResponse : IdTokenDownloadConfiguration(resp)
  \/ \E resp \in AnyResponse : IdTokenCheckTime(resp)
  \/ \E resp \in AnyResponse : IdTokenCheckScope(resp)

\* The pipelines on their own: one call of DidValidation.validate or of
\* BaseIdTokenValidation.validate, with every response of every delegate.
PipelineSpec == Init /\ [][PipelineNext]_vars

\* ------------------------------------------- one Validator, many calls
\* The collaborators a Validator may be given: any set of types whose
\* validator fails, and either DID for the SIOP validator to resolve.
Environments == {Environment(f, d) : f \in SUBSET TokenTypes, d \in DIDs}

\* The tokens the validator of a token enqueues: the SIOP token holds a
\* presentation, and the presentation a credential.
Nested(token) ==
  IF token.fields = {"claims"} THEN <<Token(TRUE, {"vp"}, "ok", Undefined)>>
  ELSE IF token.fields = {"vp"} THEN <<Token(TRUE, {"vc"}, "ok", "did:a")>>
  ELSE <<>>

\* The number of tokens the validators of the first n items of q enqueue.
RECURSIVE NestedBefore(_, _)
NestedBefore(q, n) ==
  IF n = 0 THEN 0 ELSE NestedBefore(q, n - 1) + Len(Nested(q[n].tokenToValidate))

\* The number of tokens the validator under way has enqueued so far: the
\* queue holds the root token and what the validators before it enqueued.
EnqueuedByCurrent == Len(queue) - 1 - NestedBefore(queue, queueItem - 1)

\* The response of the validator under way, as env decides it: the one
\* element of ValidatorResponses that env picks.
EnvironmentResponse ==
  LET type == claimToken.type
      token == queue[queueItem].tokenToValidate
      siopArg == SiopArgument(type, siopDid)
      mismatch == type = "verifiableCredential" /\ siopArg # Undefined /\ token.aud # siopArg
  IN  IF type \in env.fail \/ mismatch
        THEN Response(FALSE, 403, Undefined, queueItem)
        ELSE Response(TRUE, 200, IF type = "siop" THEN env.did ELSE Undefined, 0)

SessionInit ==
  /\ tokenValidators \in DispatchTables
  /\ pc = "idle"
  /\ queue = <<>>
  /\ queueItem = 0
  /\ response = InitialResponse
  /\ claimToken = EmptyClaimToken
  /\ siopDid = Undefined
  /\ outcome = Pending
  /\ trace = <<>>
  /\ pkind = "none"
  /\ ppc = "none"
  /\ validationResponse = InitialResponse
  /\ pcalls = <<>>
  /\ preturn = <<>>
  /\ env \in Environments
  /\ firstCall = <<>>

\* The validator under way enqueues its next nested token.
EnvironmentAddToken ==
  /\ pc = "await"
  /\ EnqueuedByCurrent < Len(Nested(queue[queueItem].tokenToValidate))
  /\ ValidatorAddToken(Nested(queue[queueItem].tokenToValidate)[EnqueuedByCurrent + 1])

\* The validator under way has enqueued its nested tokens and returns.
EnvironmentReturn ==
  /\ pc = "await"
  /\ EnqueuedByCurrent = Len(Nested(queue[queueItem].tokenToValidate))
  /\ ValidatorReturn(EnvironmentResponse)

\* The caller takes the outcome of a call; the Validator can be called again.
\* The first call is remembered, and whether a call with another root token
\* came after it.
Settle ==
  /\ pc = "returned"
  /\ pc' = "idle"
  /\ firstCall' =
       IF firstCall = <<>>
         THEN <<[token |-> queue[1].tokenToValidate, outcome |-> outcome, between |-> FALSE]>>
         ELSE <<[firstCall[1] EXCEPT
                   !.between = @ \/ queue[1].tokenToValidate # firstCall[1].token]>>
  /\ outcome' = Pending
  /\ trace' = <<>>
  /\ UNCHANGED <<tokenValidators, queue, queueItem, response, claimToken, siopDid, env>>
  /\ UNCHANGED pipeVars

SessionNext ==
  \/ \E token \in Tokens : validate(token)
  \/ RejectNoValidator
  \/ RejectNotSupported
  \/ Dispatch
  \/ EnvironmentAddToken
  \/ EnvironmentReturn
  \/ Settle

\* A Validator called any number of times, with collaborators that answer
\* the same arguments the same way.
SessionSpec == SessionInit /\ [][SessionNext]_vars

\* ------------------------------------------------------------ the claims
\* The positions of the spy's entries of an operation.
EventsOf(op) == {k \in 1..Len(trace) : trace[k].op = op}

\* The items of the queue whose recorded response has result false.
FailedItems == {i \in 1..Len(queue) : queue[i].isValidated /\ ~queue[i].validationResponse.result}

\* The item validate was classifying when the tolerant deserialization failed.
ClassificationFailures ==
  {i \in 1..Len(queue) :
     /\ \E k \in EventsOf("classify") : trace[k].item = i
     /\ ~getSelfIssuedTokenObjectDelegate(queue[i].tokenToValidate, i).result}

\* The response an item failed with: the one recorded on it, or the one of
\* its classification.
FailureOf(i) ==
  IF queue[i].isValidated THEN queue[i].validationResponse
  ELSE getSelfIssuedTokenObjectDelegate(queue[i].tokenToValidate, i)

Least(S) == CHOOSE i \in S : \A j \in S : i <= j

\* C1: when validate has returned, the outcome is the aggregated success only
\* if every item of the queue was validated with result true; and when an
\* item failed (in its validator or in its classification) the outcome is
\* the failure response of the first such item.
C1_FirstFailureOrSuccess ==
  pc = "returned" =>
    /\ outcome.kind = "success" =>
         \A i \in 1..Len(queue) : queue[i].isValidated /\ queue[i].validationResponse.result
    /\ FailedItems \cup ClassificationFailures # {} =>
         /\ outcome.kind = "failure"
         /\ outcome.response = FailureOf(Least(FailedItems \cup ClassificationFailures))

\* C2: once the result recorded for an item is a failure, nothing more is
\* classified or dispatched: that setResult is the last entry of the spy.
C2_LoopStopsOnFailure ==
  \A m \in EventsOf("setResult") :
    ~queue[trace[m].item].validationResponse.result => m = Len(trace)

\* C3: when the tolerant deserialization of an item fails, validate has
\* returned that failure response (status other than 200, with a detail), no
\* validator was called for the item and nothing was processed after it.
C3_ClassificationFailureIsTheOutcome ==
  \A k \in EventsOf("classify") :
    LET i == trace[k].item
        first == getSelfIssuedTokenObjectDelegate(queue[i].tokenToValidate, i)
    IN  ~first.result =>
          /\ k = Len(trace)
          /\ pc = "returned"
          /\ outcome.kind = "failure"
          /\ outcome.response = first
          /\ outcome.response.status # 200
          /\ outcome.response.detailedError # 0

\* C4: when no validator is registered under the type an item is classified
\* as, validate has returned a failure response (not a rejection), and no
\* validator was called for the item.
C4_UnsupportedTypeIsAFailureResponse ==
  \A k \in EventsOf("classify") :
    (trace[k].type \in TokenTypes /\ trace[k].type \notin tokenValidators) =>
      /\ k = Len(trace)
      /\ pc = "returned"
      /\ outcome.kind = "failure"
      /\ ~outcome.response.result

\* C5: in either pipeline, when a delegate returned a response with result
\* false, no delegate was called after it and validate returned that response.
C5_PipelineFailFast ==
  \A k \in 1..Len(pcalls) :
    ~pcalls[k].response.result =>
      /\ k = Len(pcalls)
      /\ ppc = "returned"
      /\ preturn = <<pcalls[k].response>>

\* C5's case: the signature delegate of DidValidation.validate failed, after
\* two steps that succeeded, and validate has returned.
C5_Witness ==
  /\ pkind = "did"
  /\ Len(pcalls) = 3
  /\ pcalls[3].step = "signature"
  /\ ~pcalls[3].response.result
  /\ ppc = "returned"

\* C5's other case: the time delegate of BaseIdTokenValidation.validate failed.
C5_WitnessIdToken ==
  /\ pkind = "idToken"
  /\ Len(pcalls) = 3
  /\ pcalls[3].step = "time"
  /\ ~pcalls[3].response.result
  /\ ppc = "returned"

\* C6: every token that parses is classified by the precedence vc, vp,
\* claims, and the strict deserialization is not called for it when it has
\* one of the three fields.
C6_StructuralPrecedence ==
  \A k \in EventsOf("classify") :
    LET t == queue[trace[k].item].tokenToValidate
    IN  t.parses =>
          /\ "vc" \in t.fields =>
               trace[k].type = "verifiableCredential" /\ ~trace[k].strict
          /\ ("vc" \notin t.fields /\ "vp" \in t.fields) =>
               trace[k].type = "verifiablePresentation" /\ ~trace[k].strict
          /\ ("vc" \notin t.fields /\ "vp" \notin t.fields /\ "claims" \in t.fields) =>
               trace[k].type = "siop" /\ ~trace[k].strict

\* C6's case: a token with all three fields and a token with vp and claims
\* have been classified.
C6_Witness ==
  /\ \E k \in EventsOf("classify") :
       queue[trace[k].item].tokenToValidate.fields = {"vc", "vp", "claims"}
  /\ \E k \in EventsOf("classify") :
       queue[trace[k].item].tokenToValidate.fields = {"vp", "claims"}

\* The position in the spy of the validator call for an item.
ValidateEvents(i) == {k \in EventsOf("validate") : trace[k].item = i}

\* C7: when a SIOP item was validated successfully and a credential whose
\* audience is not the DID of that SIOP item is dispatched after it (no other
\* SIOP item in between), the credential's validator is given that DID, it
\* fails, and validate does not return the aggregated success.
C7_MismatchedCredentialFailsTheCall ==
  \A s \in 1..Len(queue) : \A v \in 1..Len(queue) :
    ( /\ s < v
      /\ queue[s].isValidated
      /\ queue[s].validatedToken.type = "siop"
      /\ queue[s].validationResponse.result
      /\ \A j \in (s + 1)..(v - 1) : queue[j].validatedToken.type # "siop"
      /\ \E k \in ValidateEvents(v) : trace[k].type = "verifiableCredential"
      /\ queue[v].tokenToValidate.aud # queue[s].validationResponse.did )
    => /\ \A k \in ValidateEvents(v) : trace[k].siopDid = queue[s].validationResponse.did
       /\ queue[v].isValidated => ~queue[v].validationResponse.result
       /\ pc = "returned" => outcome.kind # "success"

\* C8: items are classified and validated in the order of the queue, one at
\* a time: when an item is classified, every item before it has been
\* classified, validated and had its result recorded, and nothing later has
\* been touched; a validator is called right after the classification of
\* its item, and a result is recorded right after that call.
C8_InOrderOneAtATime ==
  /\ \A k \in EventsOf("classify") :
       /\ \A m \in 1..(k - 1) : trace[m].item < trace[k].item
       /\ \A j \in 1..(trace[k].item - 1) :
            \E m \in 1..(k - 1) : trace[m].op = "setResult" /\ trace[m].item = j
  /\ \A k \in EventsOf("validate") :
       k > 1 /\ trace[k - 1].op = "classify" /\ trace[k - 1].item = trace[k].item
  /\ \A k \in EventsOf("setResult") :
       k > 1 /\ trace[k - 1].op = "validate" /\ trace[k - 1].item = trace[k].item
  /\ pc = "await" =>
       (trace # <<>> /\ trace[Len(trace)].op = "validate"
          /\ trace[Len(trace)].item = queueItem)

\* C8's case: the third item of a queue, enqueued by a validator, has been
\* validated and its result recorded.
C8_Witness ==
  /\ Len(queue) = 3
  /\ \E k \in EventsOf("setResult") : trace[k].item = 3

\* Every item validated with result true, and the aggregated result returned.
FullSuccess ==
  /\ pc = "returned"
  /\ outcome.kind = "success"
  /\ \A i \in 1..Len(queue) : queue[i].isValidated /\ queue[i].validationResponse.result

\* C9: on full success the subject DID is the DID recorded for the first
\* SIOP item that has one; without such an item, the aud of the first
\* credential item; and the empty string when there is neither.
C9_SubjectDid ==
  FullSuccess =>
    LET siops == {i \in 1..Len(queue) : /\ queue[i].validatedToken.type = "siop"
                                        /\ queue[i].validationResponse.did # Undefined}
        vcs == {i \in 1..Len(queue) : queue[i].validatedToken.type = "verifiableCredential"}
    IN  outcome.validationResult.did =
          IF siops # {} THEN queue[Least(siops)].validationResponse.did
          ELSE IF vcs # {} /\ queue[Least(vcs)].tokenToValidate.aud # Undefined
            THEN queue[Least(vcs)].tokenToValidate.aud
          ELSE ""

\* C9's case: a full success over a credential and a SIOP item whose DID is
\* not the audience of the credential.
C9_Witness ==
  /\ FullSuccess
  /\ \E s \in 1..Len(queue) : \E v \in 1..Len(queue) :
       /\ queue[s].validatedToken.type = "siop"
       /\ queue[v].validatedToken.type = "verifiableCredential"
       /\ queue[v].tokenToValidate.aud \in DIDs
       /\ queue[v].tokenToValidate.aud # queue[s].validationResponse.did
       /\ outcome.validationResult.did = queue[s].validationResponse.did

\* C9's other cases: the audience of a credential, and the empty string for
\* a single ID token.
C9_WitnessCredential ==
  /\ FullSuccess
  /\ \A i \in 1..Len(queue) : queue[i].validatedToken.type # "siop"
  /\ outcome.validationResult.did \in DIDs

C9_WitnessIdToken ==
  /\ FullSuccess
  /\ Len(queue) = 1
  /\ queue[1].validatedToken.type = "idToken"
  /\ outcome.validationResult.did = ""

\* The n-th item of the type in the queue.
NthOfType(type, n) ==
  CHOOSE i \in 1..Len(queue) :
    /\ queue[i].validatedToken.type = type
    /\ Cardinality({j \in 1..i : queue[j].validatedToken.type = type}) = n

CountOfType(type) == Cardinality({i \in 1..Len(queue) : queue[i].validatedToken.type = type})

\* C10: in the aggregated result idTokens holds the decoded token of each
\* idToken item and verifiableCredentials that of each verifiableCredential
\* item, in queue order and nothing else, and selfIssued is the decoded token
\* of the first selfIssued item, undefined when there is none.
C10_AggregatedLists ==
  (pc = "returned" /\ outcome.kind = "success") =>
    LET r == outcome.validationResult
    IN  /\ Len(r.idTokens) = CountOfType("idToken")
        /\ \A n \in 1..Len(r.idTokens) :
             r.idTokens[n] = DecodedToken(queue[NthOfType("idToken", n)].tokenToValidate)
        /\ Len(r.verifiableCredentials) = CountOfType("verifiableCredential")
        /\ \A n \in 1..Len(r.verifiableCredentials) :
             r.verifiableCredentials[n] =
               DecodedToken(queue[NthOfType("verifiableCredential", n)].tokenToValidate)
        /\ r.selfIssued =
             IF CountOfType("selfIssued") = 0 THEN <<>>
             ELSE <<DecodedToken(queue[NthOfType("selfIssued", 1)].tokenToValidate)>>

\* C10's case: an aggregated result over a presentation and two different
\* credentials.
C10_Witness ==
  /\ pc = "returned"
  /\ outcome.kind = "success"
  /\ CountOfType("verifiablePresentation") = 1
  /\ Len(outcome.validationResult.verifiableCredentials) = 2
  /\ outcome.validationResult.verifiableCredentials[1]
       # outcome.validationResult.verifiableCredentials[2]
  /\ outcome.validationResult.idTokens = <<>>

\* C10's other case: an aggregated result with an ID token and a self-issued
\* token, and a SIOP item that adds no entry.
C10_WitnessSelfIssued ==
  /\ pc = "returned"
  /\ outcome.kind = "success"
  /\ CountOfType("siop") = 1
  /\ Len(outcome.validationResult.idTokens) = 1
  /\ Len(outcome.validationResult.selfIssued) = 1

\* C11: a call with the root token of the first call returns what the first
\* call returned, whatever calls were made on the Validator in between.
C11_SameTokenSameOutcome ==
  (pc = "returned" /\ firstCall # <<>> /\ queue[1].tokenToValidate = firstCall[1].token)
    => outcome = firstCall[1].outcome

\* C11's case: the first call validated a credential for did:b with success,
\* a call with another root token came in between, and the credential has
\* been validated again.
C11_Witness ==
  /\ pc = "returned"
  /\ firstCall # <<>>
  /\ firstCall[1].between
  /\ queue[1].tokenToValidate = firstCall[1].token
  /\ firstCall[1].token.fields = {"vc"}
  /\ firstCall[1].token.aud = "did:b"
  /\ outcome.kind = "success"

\* C12: a token that parses and has none of the three fields is classified
\* selfIssued exactly when the strict deserialization fails with status 403,
\* and idToken otherwise; classified idToken, it is dispatched to the idToken
\* validator (when one is registered) even when the strict deserialization
\* failed.
C12_SelfIssuedOnlyOn403 ==
  \A k \in EventsOf("classify") :
    LET t == queue[trace[k].item].tokenToValidate
        strict == getTokenObjectDelegate(t, trace[k].item)
    IN  (t.parses /\ t.fields = {}) =>
          /\ trace[k].strict
          /\ trace[k].type = "selfIssued" <=> (~strict.result /\ strict.status = 403)
          /\ trace[k].type # "selfIssued" => trace[k].type = "idToken"
          /\ (trace[k].type = "idToken" /\ "idToken" \in tokenValidators) =>
               /\ k < Len(trace)
               /\ trace[k + 1].op = "validate"
               /\ trace[k + 1].item = trace[k].item
               /\ trace[k + 1].type = "idToken"

\* C12's case: a token whose strict deserialization fails with a status
\* other than 403 has been classified idToken and its validator called, and
\* a token whose strict deserialization fails with 403 has been classified.
C12_Witness ==
  /\ \E k \in EventsOf("validate") :
       /\ queue[trace[k].item].tokenToValidate.strict = "other"
       /\ queue[trace[k].item].tokenToValidate.parses
       /\ trace[k].type = "idToken"
  /\ \E k \in EventsOf("classify") :
       /\ queue[trace[k].item].tokenToValidate.strict = "s403"
       /\ trace[k].type = "selfIssued"

\* The steps of the pipeline under way.
StepsOf(kind) == IF kind = "did" THEN DidSteps ELSE IdTokenSteps

\* C13: the delegates a pipeline has called are the first steps of its fixed
\* order, each called once, and each called only after every step before it
\* returned result true.
C13_StepsInFixedOrder ==
  pkind # "none" =>
    /\ Len(pcalls) <= Len(StepsOf(pkind))
    /\ \A k \in 1..Len(pcalls) :
         /\ pcalls[k].step = StepsOf(pkind)[k]
         /\ \A j \in 1..(k - 1) : pcalls[j].response.result

\* C13's case: DidValidation.validate has called its five delegates and
\* returned.
C13_Witness ==
  /\ pkind = "did"
  /\ Len(pcalls) = 5
  /\ ppc = "returned"
  /\ preturn # <<>>

\* C13's other case: BaseIdTokenValidation.validate has called its four
\* delegates and returned.
C13_WitnessIdToken ==
  /\ pkind = "idToken"
  /\ Len(pcalls) = 4
  /\ ppc = "returned"

\* The SIOP items before item v that were validated with result true.
ValidSiopBefore(v) ==
  {s \in 1..(v - 1) : /\ queue[s].isValidated
                      /\ queue[s].validatedToken.type = "siop"
                      /\ queue[s].validationResponse.result}

\* C14: the siopDid a credential or presentation validator is called with is
\* the DID of a SIOP item validated with result true before it, and
\* undefined when there is no such item.
C14_SiopDidFromValidSiopOnly ==
  \A k \in EventsOf("validate") :
    trace[k].type \in {"verifiableCredential", "verifiablePresentation"} =>
      IF ValidSiopBefore(trace[k].item) = {}
        THEN trace[k].siopDid = Undefined
        ELSE trace[k].siopDid \in
               {queue[s].validationResponse.did : s \in ValidSiopBefore(trace[k].item)}

\* C15: when the deserialization of DidValidation.validate succeeded with a
\* response that has no DID, validate has returned result false, status 403
\* and the detail of the missing DID, and no other delegate was called.
C15_MissingDidFails ==
  (pkind = "did" /\ pcalls # <<>> /\ pcalls[1].response.result
     /\ pcalls[1].response.did = Undefined)
    => /\ Len(pcalls) = 1
       /\ ppc = "returned"
       /\ preturn # <<>>
       /\ ~preturn[1].result
       /\ preturn[1].status = 403
       /\ preturn[1].detailedError = MissingDidError

\* C15's case: the deserialization succeeded without a DID and validate has
\* returned.
C15_Witness ==
  /\ pkind = "did"
  /\ Len(pcalls) = 1
  /\ pcalls[1].step = "deserialize"
  /\ pcalls[1].response.result
  /\ pcalls[1].response.did = Undefined
  /\ ppc = "returned"

\* The number of entries of the spy of an operation on an item.
CountOf(op, i) == Cardinality({k \in EventsOf(op) : trace[k].item = i})

\* Every item is classified at most once, dispatched at most once and has
\* its result recorded at most once; the result is recorded only after the
\* validator was called, and it is recorded once the validator has finished.
OncePerItem ==
  \A i \in 1..Len(queue) :
    /\ CountOf("classify", i) <= 1
    /\ CountOf("validate", i) <= CountOf("classify", i)
    /\ CountOf("setResult", i) <= CountOf("validate", i)
    /\ queue[i].isValidated <=> CountOf("setResult", i) = 1
    /\ (CountOf("validate", i) = 1 /\ ~(pc = "await" /\ queueItem = i)) =>
         CountOf("setResult", i) = 1
    /\ \A k \in EventsOf("setResult") :
         trace[k].item = i =>
           \E m \in 1..(k - 1) : trace[m].op = "validate" /\ trace[m].item = i

\* A step only appends to the queue: the items it held stay where they were,
\* with their tokens.
AppendOnly ==
  /\ Len(queue') >= Len(queue)
  /\ \A i \in 1..Len(queue) : queue'[i].tokenToValidate = queue[i].tokenToValidate

\* C16: the queue is append-only, and every item taken from it is classified
\* once, dispatched at most once, and has setResult called on it exactly once
\* after its validator has finished.
C16_AppendOnlyOncePerItem == [](OncePerItem) /\ [][AppendOnly]_vars

\* C16's case: a run over three items has returned, each with its result
\* recorded.
C16_Witness ==
  /\ pc = "returned"
  /\ Len(queue) = 3
  /\ \A i \in 1..3 : queue[i].isValidated /\ CountOf("setResult", i) = 1

\* The promise of validate has settled: resolved with the aggregated result
\* or with a failure response, or rejected.
Terminal == outcome.kind # "pending"

\* A call under way settles, and once settled nothing more is classified,
\* validated or recorded.
ValidateTerminates ==
  /\ (pc = "loop") ~> Terminal
  /\ [][Terminal => (trace' = trace /\ queue' = queue /\ outcome' = outcome)]_vars

\* The terminal states of spec.md section 4.3: Failed is entered on any
\* validator, classification or dispatch failure; Done when the queue is
\* exhausted without one.
Failed == FailedItems # {} \/ outcome.kind \in {"failure", "rejected"}

Done == outcome.kind = "success" /\ FailedItems = {}

\* C17: a call under way reaches Done or Failed, and once in Done or Failed
\* no further item is classified or validated.
C17_TerminalStates ==
  /\ (pc = "loop") ~> (Done \/ Failed)
  /\ [][(Done \/ Failed) =>
          \A k \in 1..Len(trace') :
            k > Len(trace) => trace'[k].op \notin {"classify", "validate"}]_vars

\* C18: when validate has returned the aggregated success and the queue
\* holds a SIOP item, the subject DID of the result is the siopDid every
\* credential and presentation validator of the call was given.
C18_SubjectDidIsTheSiopDidPassed ==
  (/\ pc = "returned"
   /\ outcome.kind = "success"
   /\ \E i \in 1..Len(queue) : queue[i].validatedToken.type = "siop") =>
    \A k \in EventsOf("validate") :
      trace[k].type \in {"verifiableCredential", "verifiablePresentation"} =>
        trace[k].siopDid = outcome.validationResult.did

====
